---- MODULE Spec2Model ----
(***************************************************************************)
(* A model of update-index.py: the scanner of workflow-run directories,    *)
(* the loader of the workflow-metadata.json sidecar, the duration          *)
(* calculation and the regex-based renderer of index.html.                 *)
(*                                                                         *)
(* Text is a sequence of pieces.  A piece is either one character or a     *)
(* longer literal of the script (a regex marker, a key of the rendered     *)
(* object literal) that no input of the model can produce by itself, so    *)
(* searching for a marker is searching for its piece.  The characters the  *)
(* regexes and the replacement templates look at  ]  ;  }  \  are always   *)
(* pieces of their own.                                                    *)
(***************************************************************************)
EXTENDS Integers, Sequences, FiniteSets, TLC

VARIABLES
    cwd,            \* where generate-workflow-summary.py is found at start-up
    fs,             \* the entries of the workflow-results directory
    template,       \* the file index.html: [exists, content]
    pc,             \* position of the process
    workflows,      \* main(): the list scan_workflow_directories() returned
    ret,            \* what the last call of update_index_html did
    out,            \* the console lines of the current invocation
    runs,           \* invocations started so far
    prev,           \* index.html as the current invocation found it
    last,           \* the previous invocation: [ok, workflows] of its update_index_html
    started_at,     \* calculate_duration: first argument
    completed_at,   \* calculate_duration: second argument
    duration        \* calculate_duration: [done, value]

vars == <<cwd, fs, template, pc, workflows, ret, out, runs, prev, last,
          started_at, completed_at, duration>>

-----------------------------------------------------------------------------
(* Python values: None, str, and the other JSON types a sidecar can hold.  *)

None == [t |-> "none", v |-> <<>>]

Str(s) == [t |-> "str", v |-> s]

\* A JSON number; v holds its digits.
Num(d) == [t |-> "num", v |-> <<d>>]

\* A JSON array; v holds one piece per element.
List(s) == [t |-> "list", v |-> s]

\* Python truthiness (the `not x` and `if x` of the script).
Truthy(x) ==
    CASE x.t = "none" -> FALSE
      [] x.t = "str"  -> x.v # <<>>
      [] x.t = "num"  -> x.v # <<"0">>
      [] OTHER        -> x.v # <<>>

Digits == <<"0", "1", "2", "3", "4", "5", "6", "7", "8", "9">>

IsDigit(c) == \E i \in 1..10 : Digits[i] = c

DigitVal(c) == (CHOOSE i \in 1..10 : Digits[i] = c) - 1

D(n) == Digits[n + 1]

\* str(int) for n >= 0
RECURSIVE Dec(_)
Dec(n) == IF n < 10 THEN <<D(n)>> ELSE Dec(n \div 10) \o <<D(n % 10)>>

-----------------------------------------------------------------------------
(* calculate_duration                                                      *)

\* str.replace('Z', '+00:00')
ReplaceZ(s) == [i \in 1..Len(s) |-> IF s[i] = "Z" THEN "+00:00" ELSE s[i]]

\* The UTC offsets, in minutes, of the offset suffixes the inputs use.
OffsetMinutes(tz) == IF tz = "+01:00" THEN 60 ELSE 0

IsOffset(tz) == tz \in {"+00:00", "+01:00"}

TwoDigits(s, i) == 10 * DigitVal(s[i]) + DigitVal(s[i + 1])

\* datetime.fromisoformat accepts  2024-01-DDTHH:MM:SS[.fff][+HH:MM]
IsoTail(s) == SubSeq(s, 13, Len(s))

IsoParses(s) ==
    /\ Len(s) \in 12..14
    /\ s[1] = "2024-01-"
    /\ \A i \in {2, 3, 5, 6, 8, 9, 11, 12} : IsDigit(s[i])
    /\ s[4] = "T" /\ s[7] = ":" /\ s[10] = ":"
    /\ TwoDigits(s, 2) \in 1..31
    /\ TwoDigits(s, 5) \in 0..23
    /\ TwoDigits(s, 8) \in 0..59
    /\ TwoDigits(s, 11) \in 0..59
    /\ \/ IsoTail(s) = <<>>
       \/ IsoTail(s) = <<".500">>
       \/ Len(IsoTail(s)) = 1 /\ IsOffset(IsoTail(s)[1])
       \/ Len(IsoTail(s)) = 2 /\ IsoTail(s)[1] = ".500" /\ IsOffset(IsoTail(s)[2])

\* whether the parsed datetime carries a tzinfo
IsoAware(s) == IsoTail(s) # <<>> /\ IsOffset(IsoTail(s)[Len(IsoTail(s))])

\* the parsed instant, in milliseconds (UTC for an aware datetime)
IsoMillis(s) ==
    LET secs == ((TwoDigits(s, 2) * 24 + TwoDigits(s, 5)) * 60 + TwoDigits(s, 8)) * 60
                  + TwoDigits(s, 11)
        frac == IF IsoTail(s) # <<>> /\ IsoTail(s)[1] = ".500" THEN 500 ELSE 0
        off  == IF IsoAware(s) THEN OffsetMinutes(IsoTail(s)[Len(IsoTail(s))]) ELSE 0
    IN  secs * 1000 + frac - off * 60000

\* int(x): truncation towards zero of a number of milliseconds, in seconds
IntSeconds(ms) == IF ms >= 0 THEN ms \div 1000 ELSE -((-ms) \div 1000)

\* format(n, '02d'): sign-aware zero padding to width 2
Format02d(n) ==
    IF n < 0 THEN <<"-">> \o Dec(-n)
    ELSE IF n < 10 THEN <<"0">> \o Dec(n)
    ELSE Dec(n)

\* lines 31-36; \div and % floor, as Python's // and % do
FormatHMS(total_seconds) ==
    LET hours   == total_seconds \div 3600
        minutes == (total_seconds % 3600) \div 60
        seconds == total_seconds % 60
    IN  Format02d(hours) \o <<":">> \o Format02d(minutes) \o <<":">> \o Format02d(seconds)

calculate_duration(s, c) ==
    IF ~Truthy(s) \/ ~Truthy(c) THEN None
    ELSE IF s.t # "str" \/ c.t # "str" THEN None                 \* AttributeError, caught
    ELSE LET start == ReplaceZ(s.v)
             end   == ReplaceZ(c.v)
         IN  IF ~IsoParses(start) \/ ~IsoParses(end) THEN None    \* ValueError, caught
             ELSE IF IsoAware(start) # IsoAware(end) THEN None    \* TypeError, caught
             ELSE Str(FormatHMS(IntSeconds(IsoMillis(end) - IsoMillis(start))))

-----------------------------------------------------------------------------
(* load_workflow_metadata                                                  *)

\* A key that the JSON object does not have.
Missing == [t |-> "missing", v |-> <<>>]

\* dict.get(key, default)
Get(val, default) == IF val.t = "missing" THEN default ELSE val

IsSpace(c) == c \in {" ", "\t", "\n"}

\* str.strip()
RECURSIVE LStrip(_)
LStrip(s) == IF s # <<>> /\ IsSpace(Head(s)) THEN LStrip(Tail(s)) ELSE s

RECURSIVE RStrip(_)
RStrip(s) == IF s # <<>> /\ IsSpace(s[Len(s)]) THEN RStrip(SubSeq(s, 1, Len(s) - 1)) ELSE s

Strip(s) == RStrip(LStrip(s))

Unknown == Str(<<"Unknown">>)

\* The content of workflow-metadata.json.  file: "absent", "undecodable" (not
\* UTF-8), "invalid" (not JSON) or "json"; top: the type of the top-level value;
\* workflow, inputs, execution: "missing", "obj" or the type of a value that is
\* no object; the other fields: the member's value, or Missing.
Sidecar(file, top, workflow, actor, inputs, release, execution, started, completed, dur) ==
    [file |-> file, top |-> top,
     workflow |-> workflow, actor |-> actor,
     inputs |-> inputs, release_version |-> release,
     execution |-> execution, started_at |-> started, completed_at |-> completed,
     duration_formatted |-> dur]

\* The dict of lines 78-83, and what the call did besides returning it.
Metadata(raised, warned, actor, release, started, dur) ==
    [raised |-> raised, warned |-> warned, actor |-> actor, release_version |-> release,
     started_at |-> started, duration_formatted |-> dur]

MetadataDefaults(warned) == Metadata(FALSE, warned, None, None, None, None)

\* An exception that load_workflow_metadata does not catch.
MetadataRaised == Metadata(TRUE, FALSE, None, None, None, None)

\* x.get(...) raises AttributeError unless x is a dict
HasGet(kind) == kind \in {"missing", "obj"}

\* lines 50-74, for a sidecar that json.load parsed
ExtractMetadata(sc) ==
    LET actor      == IF sc.workflow = "obj" THEN Get(sc.actor, Unknown) ELSE Unknown
        release    == IF sc.inputs = "obj" THEN Get(sc.release_version, Unknown) ELSE Unknown
        inExec     == sc.execution = "obj"
        started0   == IF inExec THEN Get(sc.started_at, Str(<<>>)) ELSE Str(<<>>)
        started    == Strip(started0.v)
        dur0       == IF inExec THEN Get(sc.duration_formatted, None) ELSE None
        completed0 == IF inExec THEN Get(sc.completed_at, Str(<<>>)) ELSE Str(<<>>)
        completed  == Strip(completed0.v)
        dur1       == IF ~Truthy(dur0) /\ started # <<>> /\ completed # <<>>
                      THEN calculate_duration(Str(started), Str(completed))
                      ELSE dur0
    IN  IF \/ sc.top # "obj"
           \/ ~HasGet(sc.workflow) \/ ~HasGet(sc.inputs) \/ ~HasGet(sc.execution)
           \/ started0.t # "str"                                  \* .strip() of a non-string
           \/ (~Truthy(dur0) /\ completed0.t # "str")
        THEN MetadataRaised                                       \* AttributeError
        ELSE Metadata(FALSE, FALSE,
                      IF actor # Unknown THEN actor ELSE None,
                      IF release # Unknown THEN release ELSE None,
                      IF started # <<>> THEN Str(started) ELSE None,
                      IF Truthy(dur1) THEN dur1 ELSE None)

load_workflow_metadata(sc) ==
    CASE sc.file = "absent"      -> MetadataDefaults(FALSE)
      [] sc.file = "invalid"     -> MetadataDefaults(TRUE)        \* JSONDecodeError, caught
      [] sc.file = "undecodable" -> MetadataRaised                \* UnicodeDecodeError
      [] OTHER                   -> ExtractMetadata(sc)

-----------------------------------------------------------------------------
(* scan_workflow_directories                                               *)

\* The characters of the names, in code-point order.
CodePoints ==
    <<"-", ".", "0", "1", "2", "3", "4", "5", "6", "7", "8", "9", ";",
      "\\", "]", "_", "a", "c", "e", "g", "h", "i", "n", "o", "p", "q", "s", "t", "x", "y">>

Ord(c) == CHOOSE i \in 1..Len(CodePoints) : CodePoints[i] = c

\* a < b for two str
RECURSIVE StrLess(_, _)
StrLess(a, b) ==
    IF b = <<>> THEN FALSE
    ELSE IF a = <<>> THEN TRUE
    ELSE IF Head(a) # Head(b) THEN Ord(Head(a)) < Ord(Head(b))
    ELSE StrLess(Tail(a), Tail(b))

\* sorted(current_dir.iterdir()) without reverse=True: the least name first
RECURSIVE SortedForward(_)
SortedForward(S) ==
    IF S = {} THEN <<>>
    ELSE LET m == CHOOSE e \in S : \A f \in S : ~StrLess(f.name, e.name)
         IN  <<m>> \o SortedForward(S \ {m})

\* sorted(current_dir.iterdir(), reverse=True): the entries, greatest name first
RECURSIVE SortedReverse(_)
SortedReverse(S) ==
    IF S = {} THEN <<>>
    ELSE LET m == CHOOSE e \in S : \A f \in S : ~StrLess(e.name, f.name)
         IN  <<m>> \o SortedReverse(S \ {m})

\* the length of the run of digits of s that starts at position i
RECURSIVE DigitRun(_, _)
DigitRun(s, i) == IF i <= Len(s) /\ IsDigit(s[i]) THEN 1 + DigitRun(s, i + 1) ELSE 0

\* re.match(r'(\d{4})-(\d{2})-(\d{2})-(\d+)', name)
NameMatches(name) ==
    /\ Len(name) >= 12
    /\ \A i \in {1, 2, 3, 4, 6, 7, 9, 10, 12} : IsDigit(name[i])
    /\ name[5] = "-" /\ name[8] = "-" /\ name[11] = "-"

ReservedNames == {<<".", "g", "i", "t">>,
                  <<"_", "_", "p", "y", "c", "a", "c", "h", "e", "_", "_">>}

\* line 92 and line 95
IsWorkflowDir(e) == e.is_dir /\ e.name \notin ReservedNames /\ NameMatches(e.name)

\* lines 96-119
WorkflowRecord(e) ==
    LET metadata == load_workflow_metadata(e.sidecar)
    IN  [name |-> e.name,
         year |-> SubSeq(e.name, 1, 4),
         month |-> SubSeq(e.name, 6, 7),
         day |-> SubSeq(e.name, 9, 10),
         run_id |-> SubSeq(e.name, 12, 11 + DigitRun(e.name, 12)),
         has_index |-> e.has_index,
         job_count |-> e.job_count,
         actor |-> metadata.actor,
         release_version |-> metadata.release_version,
         started_at |-> metadata.started_at,
         duration_formatted |-> metadata.duration_formatted]

SelectWorkflowDirs(s) == SelectSeq(s, IsWorkflowDir)

scan_workflow_directories(dir) ==
    LET kept == SelectWorkflowDirs(SortedReverse(dir))
    IN  IF \E i \in 1..Len(kept) : load_workflow_metadata(kept[i].sidecar).raised
        THEN [raised |-> TRUE, value |-> <<>>]
        ELSE [raised |-> FALSE, value |-> [i \in 1..Len(kept) |-> WorkflowRecord(kept[i])]]

-----------------------------------------------------------------------------
(* update_index_html: the rendered text                                    *)

\* str(x) as an f-string inserts it
PyStr(x) == IF x.t = "list" THEN <<"[">> \o x.v \o <<"]">> ELSE x.v

\* lines 145-163: a quoted value, or the null literal
OptionalJs(key, x) ==
    IF Truthy(x) THEN <<key, "'">> \o PyStr(x) \o <<"'">> ELSE <<key, "null">>

\* lines 140-165
MetadataJs(w) ==
    <<"{name: '">> \o w.name \o <<"'">>
    \o <<", hasIndex: ", IF w.has_index THEN "true" ELSE "false">>
    \o <<", jobCount: ">> \o Dec(w.job_count)
    \o OptionalJs(", actor: ", w.actor)
    \o OptionalJs(", releaseVersion: ", w.release_version)
    \o OptionalJs(", startedAt: ", w.started_at)
    \o OptionalJs(", duration: ", w.duration_formatted)
    \o <<"}">>

\* sep.join(items)
RECURSIVE Join(_, _)
Join(sep, items) ==
    IF items = <<>> THEN <<>>
    ELSE IF Len(items) = 1 THEN items[1]
    ELSE items[1] \o sep \o Join(sep, Tail(items))

\* line 168
WorkflowsJs(ws) == Join(<<",\n                ">>, [i \in 1..Len(ws) |-> MetadataJs(ws[i])])

OldDecl == "const workflowDirectories = ["

NewDecl == "const workflowData = ["

\* line 175
ArrayReplacement(ws) ==
    <<"\\", "1", "\n                ">> \o WorkflowsJs(ws) \o <<"\n            ", "\\", "3">>

\* line 188
WithIndex(w) == w.has_index

\* line 189
IndexListJs(ws) ==
    LET names == SelectSeq(ws, WithIndex)
    IN  Join(<<", ">>, [i \in 1..Len(names) |-> <<"'">> \o names[i].name \o <<"'">>])

CheckFn == "function checkForIndex(workflowName) {"

\* line 193
CheckReplacement(ws) ==
    <<"\\", "1", "[">> \o IndexListJs(ws) \o <<"]", ".includes(workflowName)", "\\", "3">>

LastUpdated == "Last updated: "

AutoGenerated == " | Auto-generated from directory scan"

Placeholder == "Generated on <span id=\"current-date\"></span>"

\* lines 198, 202 and 207; the clock reading is a number, printed in decimal
TimestampLine(now) == <<LastUpdated>> \o Dec(now) \o <<AutoGenerated>>

-----------------------------------------------------------------------------
(* re.sub: the replacement template                                        *)

\* The escapes of a replacement template that stand for one character.
EscapeLetters == {"a", "b", "f", "n", "r", "t", "v"}

EscapeChar(c) ==
    CASE c = "n" -> "\n" [] c = "t" -> "\t" [] c = "r" -> "\r" [] c = "f" -> "\f"
      [] c = "a" -> "<BEL>" [] c = "b" -> "<BS>" [] OTHER -> "<VT>"

AsciiLetters ==
    {"a", "b", "c", "d", "e", "f", "g", "h", "i", "j", "k", "l", "m", "n", "o", "p", "q",
     "r", "s", "t", "u", "v", "w", "x", "y", "z"}

\* The number of groups of each of the two patterns (lines 172-173 and 192).
GroupCount == 3

\* Whether the escape that starts at piece i of the template is an error:
\* a backslash at the end, a bad letter escape, a group the pattern has not.
\* (A backslash before two digits is a group above GroupCount.)
BadEscape(repl, i) ==
    \/ i = Len(repl)
    \/ /\ repl[i + 1] \in AsciiLetters
       /\ repl[i + 1] \notin EscapeLetters
    \/ /\ IsDigit(repl[i + 1])
       /\ repl[i + 1] # "0"
       /\ \/ DigitVal(repl[i + 1]) > GroupCount
          \/ i + 2 <= Len(repl) /\ IsDigit(repl[i + 2])

\* The concatenation of the texts parts[lo], ..., parts[hi].
RECURSIVE ConcatRange(_, _, _)
ConcatRange(parts, lo, hi) ==
    IF lo > hi THEN <<>>
    ELSE IF lo = hi THEN parts[lo]
    ELSE ConcatRange(parts, lo, (lo + hi) \div 2) \o ConcatRange(parts, (lo + hi) \div 2 + 1, hi)

Concat(parts) == ConcatRange(parts, 1, Len(parts))

\* The number of backslashes that stand immediately before piece i.
BackslashesBefore(repl, i) ==
    LET others == {j \in 1..(i - 1) : repl[j] # "\\"}
    IN  i - 1 - (IF others = {} THEN 0 ELSE CHOOSE j \in others : \A k \in others : k <= j)

\* The template is read left to right and an escape takes two pieces: a
\* backslash starts an escape when an even number of backslashes precedes it.
EscapeStarts(repl, i) == repl[i] = "\\" /\ BackslashesBefore(repl, i) % 2 = 0

\* Whether parsing the template raises re.error.
TemplateError(repl) == \E i \in 1..Len(repl) : EscapeStarts(repl, i) /\ BadEscape(repl, i)

\* What the escape that starts at piece i stands for.
EscapeValue(repl, groups, i) ==
    LET c == repl[i + 1]
    IN  CASE IsDigit(c) /\ c # "0"  -> groups[DigitVal(c)]
          [] c = "0"                -> <<"<NUL>">>
          [] c \in EscapeLetters   -> <<EscapeChar(c)>>
          [] c = "\\"               -> <<"\\">>
          [] OTHER                  -> <<"\\", c>>

\* The template with its group references and escapes expanded.
Expand(repl, groups) ==
    Concat([i \in 1..Len(repl) |->
              IF EscapeStarts(repl, i) THEN EscapeValue(repl, groups, i)
              ELSE IF i > 1 /\ EscapeStarts(repl, i - 1) THEN <<>>
              ELSE <<repl[i]>>])

-----------------------------------------------------------------------------
(* re.search and re.sub with the three patterns                            *)

Min(S) == CHOOSE x \in S : \A y \in S : x <= y

\* the first position >= from that holds piece p, or 0
Find(s, p, from) ==
    LET I == {i \in from..Len(s) : s[i] = p}
    IN  IF I = {} THEN 0 ELSE Min(I)

\* the first position >= from where  ];  starts, or 0
FindClose(s, from) ==
    LET I == {i \in from..(Len(s) - 1) : s[i] = "]" /\ s[i + 1] = ";"}
    IN  IF I = {} THEN 0 ELSE Min(I)

\* re.search(r'(<decl>)(.*?)(\];)', s, flags=re.DOTALL)
ArraySearch(s, decl) == Find(s, decl, 1) # 0 /\ FindClose(s, Find(s, decl, 1) + 1) # 0

\* re.sub(r'(<decl>)(.*?)(\];)', repl, s, flags=re.DOTALL), from position `from` on
RECURSIVE ArraySub(_, _, _, _)
ArraySub(s, decl, repl, from) ==
    LET i == Find(s, decl, from)
        j == IF i = 0 THEN 0 ELSE FindClose(s, i + 1)
    IN  IF j = 0 THEN SubSeq(s, from, Len(s))
        ELSE SubSeq(s, from, i - 1)
             \o Expand(repl, <<<<decl>>, SubSeq(s, i + 1, j - 1), <<"]", ";">>>>)
             \o ArraySub(s, decl, repl, j + 2)

\* str.replace(old, new) for a piece
ReplacePiece(s, old, new) == [i \in 1..Len(s) |-> IF s[i] = old THEN new ELSE s[i]]

\* The match of line 192's pattern that starts at or after `from`:
\* <<start, return, semicolon, brace>>, or <<>>.
CheckMatch(s, from) ==
    LET i == Find(s, CheckFn, from)
        r == IF i = 0 THEN 0 ELSE Find(s, "return ", i + 1)
        c == IF r = 0 THEN 0 ELSE Find(s, ";", r + 1)
        b == IF c = 0 THEN 0 ELSE Find(s, "}", c + 1)
    IN  IF b = 0 THEN <<>> ELSE <<i, r, c, b>>

\* re.sub(check_for_index_pattern, repl, s, flags=re.DOTALL), from position `from` on
RECURSIVE CheckSub(_, _, _)
CheckSub(s, repl, from) ==
    LET m == CheckMatch(s, from)
    IN  IF m = <<>> THEN SubSeq(s, from, Len(s))
        ELSE SubSeq(s, from, m[1] - 1)
             \o Expand(repl, <<SubSeq(s, m[1], m[2]), SubSeq(s, m[2] + 1, m[3] - 1),
                               SubSeq(s, m[3], m[4])>>)
             \o CheckSub(s, repl, m[4] + 1)

\* the end of the match of line 199's pattern that starts at i, or 0
StampEnd(s, i) ==
    IF s[i] = LastUpdated /\ DigitRun(s, i + 1) > 0
       /\ i + 1 + DigitRun(s, i + 1) <= Len(s)
       /\ s[i + 1 + DigitRun(s, i + 1)] = AutoGenerated
    THEN i + 1 + DigitRun(s, i + 1)
    ELSE 0

\* re.search(pattern, s) of line 200
StampSearch(s) == \E i \in 1..Len(s) : StampEnd(s, i) # 0

\* re.sub(pattern, replacement, s) of line 203
StampSub(s, line) ==
    Concat([i \in 1..Len(s) |->
              IF StampEnd(s, i) # 0 THEN line
              ELSE IF \E j \in 1..(i - 1) : StampEnd(s, j) >= i THEN <<>>
              ELSE <<s[i]>>])

\* str.replace(old, new) where new is a text
ReplaceText(s, old, new) ==
    Concat([i \in 1..Len(s) |-> IF s[i] = old THEN new ELSE <<s[i]>>])

-----------------------------------------------------------------------------
(* update_index_html                                                       *)

\* What a call did: value is "true", "false", or "raised" for an exception that
\* leaves the function; wrote tells whether index.html was written; arg is the
\* list the function was called with.  "none": not called.
Outcome(value, wrote, warned, content, arg) ==
    [value |-> value, wrote |-> wrote, warned |-> warned, content |-> content, arg |-> arg]

NotCalled == Outcome("none", FALSE, FALSE, <<>>, <<>>)

\* lines 177-185
ArrayStep(content, ws) ==
    IF ArraySearch(content, OldDecl)
    THEN ReplacePiece(ArraySub(content, OldDecl, ArrayReplacement(ws), 1), OldDecl, NewDecl)
    ELSE IF ArraySearch(content, NewDecl)
    THEN ArraySub(content, NewDecl, ArrayReplacement(ws), 1)
    ELSE content

\* line 195
CheckStep(content, ws) == CheckSub(content, CheckReplacement(ws), 1)

\* lines 198-208
StampStep(content, now) ==
    IF StampSearch(content)
    THEN StampSub(content, TimestampLine(now))
    ELSE ReplaceText(content, Placeholder, TimestampLine(now))

\* re.sub parses its replacement before it searches: lines 178, 182 and 195
UpdateRaises(content, ws) ==
    \/ /\ ArraySearch(content, OldDecl) \/ ArraySearch(content, NewDecl)
       /\ TemplateError(ArrayReplacement(ws))
    \/ TemplateError(CheckReplacement(ws))

update_index_html(file, ws, now) ==
    IF ~file.exists THEN Outcome("false", FALSE, FALSE, file.content, ws)
    ELSE IF UpdateRaises(file.content, ws) THEN Outcome("raised", FALSE, FALSE, file.content, ws)
    ELSE Outcome("true", TRUE,
                 ~ArraySearch(file.content, OldDecl) /\ ~ArraySearch(file.content, NewDecl),
                 StampStep(CheckStep(ArrayStep(file.content, ws), ws), now), ws)

-----------------------------------------------------------------------------
(* The inputs of the model                                                 *)

\* 2024-MM-DD-<rest> as a name
Name(mm, dd, rest) ==
    <<"2", "0", "2", "4", "-">> \o Format02d(mm) \o <<"-">> \o Format02d(dd) \o <<"-">> \o rest

\* 2024-01-DDTHH:MM:SS<tail> as a timestamp
Stamp(dd, hh, mm, ss, tail) ==
    <<"2024-01-">> \o Format02d(dd) \o <<"T">> \o Format02d(hh) \o <<":">> \o Format02d(mm)
    \o <<":">> \o Format02d(ss) \o tail

Obj(actor, release, started, completed, dur) ==
    Sidecar("json", "obj", "obj", actor, "obj", release, "obj", started, completed, dur)

NoFile == Sidecar("absent", "obj", "missing", Missing, "missing", Missing, "missing",
                  Missing, Missing, Missing)

\* the file holds  {not json
InvalidJson == [NoFile EXCEPT !.file = "invalid"]

NotUtf8 == [NoFile EXCEPT !.file = "undecodable"]

\* the file holds  []
TopList == [NoFile EXCEPT !.file = "json", !.top = "list"]

\* the file holds  {}
EmptyObject == [NoFile EXCEPT !.file = "json"]

\* the file holds  {"workflow": null}
WorkflowNull == [EmptyObject EXCEPT !.workflow = "null"]

\* the file holds  {"execution": "done"}
ExecutionString == [EmptyObject EXCEPT !.execution = "str"]

Alice == Str(<<"alice">>)

Version == Str(<<"1", ".", "0">>)

TenOClock == Str(Stamp(1, 10, 0, 0, <<"Z">>))

HalfPastEleven == Str(Stamp(1, 11, 30, 15, <<"Z">>))

\* started_at and completed_at given, duration_formatted not
Full == Obj(Alice, Version, TenOClock, HalfPastEleven, Missing)

\* completed_at before started_at
Reversed == Obj(Alice, Version, HalfPastEleven, TenOClock, Missing)

\* {"workflow": {"actor": ""}, "inputs": {"release-version": "Unknown"}, ...}
EmptyActor == Obj(Str(<<>>), Unknown, Missing, Missing, Str(<<"00:01:00">>))

\* {"workflow": {}, "inputs": {"release-version": " "}, "execution": {"started_at": "  "}}
BlankStarted == Obj(Missing, Str(<<" ">>), Str(<<" ", " ">>), Missing, Missing)

\* {"execution": {"started_at": null}}
StartedNull == Obj(Alice, Version, None, HalfPastEleven, Missing)

\* {"execution": {"started_at": "...", "completed_at": null}}
CompletedNull == Obj(Alice, Version, TenOClock, None, Missing)

\* {"workflow": {"actor": 5}, "execution": {"duration_formatted": 7, "completed_at": null}}
NumericFields == Obj(Num("5"), Version, TenOClock, None, Num("7"))

\* {"workflow": {"actor": "a\qb"}}: a backslash in a rendered value
BackslashActor == Obj(Str(<<"a", "\\", "q", "b">>), Missing, Missing, Missing, Missing)

Entry(name, is_dir, has_index, job_count, sidecar) ==
    [name |-> name, is_dir |-> is_dir, has_index |-> has_index, job_count |-> job_count,
     sidecar |-> sidecar]

Dir(name, has_index, job_count, sidecar) == Entry(name, TRUE, has_index, job_count, sidecar)

Plain5 == Dir(Name(1, 2, <<"5">>), TRUE, 2, Full)

Plain9 == Dir(Name(1, 1, <<"9">>), FALSE, 0, NoFile)

Bracket3 == Dir(Name(1, 2, <<"3", "]", ";">>), TRUE, 1, NoFile)

BadEscape4 == Dir(Name(1, 2, <<"4", "\\", "q">>), TRUE, 1, NoFile)

Newline6 == Dir(Name(1, 2, <<"6", "\\", "n">>), TRUE, 1, NoFile)

Crash1 == Dir(Name(1, 3, <<"1">>), TRUE, 1, TopList)

GitDir == Dir(<<".", "g", "i", "t">>, FALSE, 3, NoFile)

\* The entries a workflow-results directory is built from; no two share a name.
Universe ==
    { Plain5, Plain9, Bracket3, BadEscape4, Newline6, Crash1, GitDir,
      Dir(<<"_", "_", "p", "y", "c", "a", "c", "h", "e", "_", "_">>, FALSE, 0, NoFile),
      Dir(<<"s", "i", "t", "e">>, TRUE, 1, Full),
      Dir(<<"2", "0", "2", "4", "-", "0", "1", "-", "2", "-", "5">>, TRUE, 1, Full),
      Dir(Name(1, 2, <<>>), TRUE, 1, Full),
      Entry(Name(1, 5, <<"1">>), FALSE, FALSE, 0, NoFile),
      Dir(Name(1, 2, <<"1", "0">>), FALSE, 1, EmptyActor),
      Dir(Name(1, 2, <<"9", "x">>), TRUE, 0, BlankStarted),
      Dir(Name(1, 2, <<"9", "0">>), TRUE, 0, InvalidJson),
      Dir(Name(2, 1, <<"7">>), FALSE, 1, Reversed),
      Dir(Name(1, 4, <<"1">>), FALSE, 1, StartedNull),
      Dir(Name(1, 4, <<"2">>), FALSE, 1, WorkflowNull),
      Dir(Name(1, 4, <<"3">>), FALSE, 1, ExecutionString),
      Dir(Name(1, 4, <<"4">>), FALSE, 1, CompletedNull),
      Dir(Name(1, 4, <<"5">>), FALSE, 1, NumericFields),
      Dir(Name(1, 4, <<"6">>), FALSE, 1, NotUtf8),
      Dir(Name(1, 4, <<"7">>), FALSE, 1, EmptyObject),
      Dir(Name(1, 4, <<"8">>), FALSE, 1, BackslashActor) }

\* The most entries of a scanned directory.
MaxDirs == 2

\* The directories scan_workflow_directories is tried on.
ScanInputs == {S \in SUBSET Universe : Cardinality(S) <= MaxDirs}

\* The states of the directory that the invocations of the script find.
DirStates ==
    { {}, {GitDir}, {Plain5}, {Plain9}, {Plain5, Plain9}, {Bracket3}, {Plain5, Bracket3},
      {BadEscape4}, {Newline6}, {Crash1, Plain5} }

\* A record of an earlier run, still rendered in the template.
Stale ==
    [name |-> Name(1, 1, <<"1">>), year |-> <<>>, month |-> <<>>, day |-> <<>>,
     run_id |-> <<>>, has_index |-> TRUE, job_count |-> 1, actor |-> None,
     release_version |-> None, started_at |-> None, duration_formatted |-> None]

StaleArrayBody == <<"\n                ">> \o MetadataJs(Stale) \o <<"\n            ">>

Helper ==
    <<CheckFn, "\n  ", "return ", "[">> \o IndexListJs(<<Stale>>)
    \o <<"]", ".includes(workflowName)", ";", "\n", "}">>

File(content) == [exists |-> TRUE, content |-> content]

NoTemplate == [exists |-> FALSE, content |-> <<>>]

\* The index.html files the first invocation finds.
Templates ==
    { NoTemplate,
      File(<<"<script>", OldDecl>> \o StaleArrayBody \o <<"]", ";">> \o Helper
           \o <<"</script>", Placeholder>>),
      File(<<"<script>", NewDecl>> \o StaleArrayBody \o <<"]", ";">> \o Helper
           \o <<"</script>">> \o TimestampLine(0)),
      File(<<"<script>">> \o Helper \o <<"</script>", Placeholder>>),
      File(<<"<script>", NewDecl>> \o StaleArrayBody \o <<"]", ";", "</script>">>),
      File(<<"<html>", "</html>">>) }

-----------------------------------------------------------------------------
(* The script: the __main__ block and main()                               *)

\* The most invocations of the script in one behaviour.
MaxRuns == 2

\* line 222: `if not workflows`
NoWorkflows(ws) == ws = <<>>

Idle == [done |-> FALSE, value |-> None]

Init ==
    /\ cwd \in {"workflow-results", "project-root", "elsewhere"}
    /\ fs \in DirStates
    /\ template \in Templates
    /\ pc = "start"
    /\ workflows = <<>>
    /\ ret = NotCalled
    /\ out = <<>>
    /\ runs = 1
    /\ prev = template
    /\ last = [ok |-> FALSE, workflows |-> <<>>]
    /\ started_at = None
    /\ completed_at = None
    /\ duration = Idle

\* lines 242-251: find generate-workflow-summary.py, here or in workflow-results/
Startup ==
    /\ pc = "start"
    /\ IF cwd = "elsewhere"
       THEN /\ out' = Append(out, "Error: Please run this script from the project root or workflow-results directory")
            /\ pc' = "exit(1)"
            /\ cwd' = cwd
       ELSE /\ cwd' = "workflow-results"
            /\ pc' = "main"
            /\ out' = out
    /\ UNCHANGED <<fs, template, workflows, ret, runs, prev, last,
                   started_at, completed_at, duration>>

\* lines 219-220
MainScan ==
    /\ pc = "main"
    /\ LET scanned == scan_workflow_directories(fs)
       IN  IF scanned.raised
           THEN /\ pc' = "raised"
                /\ workflows' = workflows
           ELSE /\ pc' = "scanned"
                /\ workflows' = scanned.value
    /\ out' = Append(out, "Scanning workflow directories...")
    /\ UNCHANGED <<cwd, fs, template, ret, runs, prev, last,
                   started_at, completed_at, duration>>

\* lines 222-234
MainReport ==
    /\ pc = "scanned"
    /\ IF NoWorkflows(workflows)
       THEN /\ out' = Append(out, "No workflow directories found.")
            /\ pc' = "done"
       ELSE /\ out' = Append(out, "Updating index.html...")
            /\ pc' = "update"
    /\ UNCHANGED <<cwd, fs, template, workflows, ret, runs, prev, last,
                   started_at, completed_at, duration>>

\* lines 235-239, with the whole of update_index_html
MainUpdate ==
    /\ pc = "update"
    /\ LET done == update_index_html(template, workflows, runs)
       IN  /\ ret' = done
           /\ template' = IF done.wrote THEN File(done.content) ELSE template
           /\ pc' = IF done.value = "raised" THEN "raised" ELSE "done"
           /\ out' = CASE done.value = "true"  -> Append(out, "Successfully updated index.html")
                       [] done.value = "false" -> Append(out, "Failed to update index.html")
                       [] OTHER                -> out
    /\ UNCHANGED <<cwd, fs, workflows, runs, prev, last,
                   started_at, completed_at, duration>>

\* The script is run again, after the directories may have changed.
Invoke ==
    /\ pc \in {"done", "raised", "exit(1)"}
    /\ runs < MaxRuns
    /\ runs' = runs + 1
    /\ cwd' \in {"workflow-results", "project-root", "elsewhere"}
    /\ fs' \in DirStates
    /\ pc' = "start"
    /\ workflows' = <<>>
    /\ ret' = NotCalled
    /\ out' = <<>>
    /\ prev' = template
    /\ last' = [ok |-> ret.value = "true", workflows |-> ret.arg]
    /\ UNCHANGED <<template, started_at, completed_at, duration>>

Next == Startup \/ MainScan \/ MainReport \/ MainUpdate \/ Invoke

Spec == Init /\ [][Next]_vars

-----------------------------------------------------------------------------
(* scan_workflow_directories on its own, over every small directory        *)

InitScan ==
    /\ cwd = "workflow-results"
    /\ fs \in ScanInputs
    /\ template = NoTemplate
    /\ pc = "main"
    /\ workflows = <<>>
    /\ ret = NotCalled
    /\ out = <<>>
    /\ runs = 1
    /\ prev = template
    /\ last = [ok |-> FALSE, workflows |-> <<>>]
    /\ started_at = None
    /\ completed_at = None
    /\ duration = Idle

SpecScan == InitScan /\ [][MainScan]_vars

-----------------------------------------------------------------------------
(* calculate_duration on its own                                           *)

Days == {1, 6}

Hours == {10, 11}

Minutes == {0, 30}

Seconds == {0, 15}

Tails == {<<>>, <<"Z">>, <<".500", "Z">>}

Timestamps ==
    {Str(Stamp(d, h, m, s, t)) : d \in Days, h \in Hours, m \in Minutes, s \in Seconds, t \in Tails}

ArgumentValues ==
    Timestamps \cup {None, Str(<<>>), Str(<<"y", "e", "s", "t", "e", "r", "d", "a", "y">>),
                     Str(Stamp(1, 24, 0, 0, <<"Z">>)), Num("5")}

InitDuration ==
    /\ cwd = "workflow-results"
    /\ fs = {}
    /\ template = NoTemplate
    /\ pc = "calculate_duration"
    /\ workflows = <<>>
    /\ ret = NotCalled
    /\ out = <<>>
    /\ runs = 1
    /\ prev = template
    /\ last = [ok |-> FALSE, workflows |-> <<>>]
    /\ started_at \in ArgumentValues
    /\ completed_at \in ArgumentValues
    /\ duration = Idle

CallDuration ==
    /\ pc = "calculate_duration"
    /\ ~duration.done
    /\ duration' = [done |-> TRUE, value |-> calculate_duration(started_at, completed_at)]
    /\ UNCHANGED <<cwd, fs, template, pc, workflows, ret, out, runs, prev, last,
                   started_at, completed_at>>

SpecDuration == InitDuration /\ [][CallDuration]_vars

-----------------------------------------------------------------------------
(* The claims about calculate_duration (under SpecDuration)                *)

Abs(n) == IF n < 0 THEN -n ELSE n

\* HH:MM:SS with minutes and seconds in 00..59 and at least two digits of hours
ClockText(t) ==
    Format02d(t \div 3600) \o <<":">> \o Format02d((t \div 60) % 60) \o <<":">> \o Format02d(t % 60)

\* a timestamp that datetime.fromisoformat parses once Z is written +00:00
Parseable(x) == x.t = "str" /\ IsoParses(ReplaceZ(x.v))

WholeSecondsBetween(a, b) == Abs(IsoMillis(ReplaceZ(b.v)) - IsoMillis(ReplaceZ(a.v))) \div 1000

\* C5: for every pair of parseable timestamps, in either order, calculate_duration
\* returns the non-negative difference in whole seconds as HH:MM:SS; when a
\* timestamp is missing or unparseable it returns None (and it never raises).
C5_DurationIsNonNegativeClockText ==
    duration.done =>
        IF Parseable(started_at) /\ Parseable(completed_at)
        THEN duration.value = Str(ClockText(WholeSecondsBetween(started_at, completed_at)))
        ELSE duration.value = None

-----------------------------------------------------------------------------
(* The claims about scan_workflow_directories (under SpecScan)             *)

ScanEnded == pc \in {"scanned", "raised"}

Records == {workflows[i] : i \in 1..Len(workflows)}

AllAbsent(w) ==
    /\ w.actor = None
    /\ w.release_version = None
    /\ w.started_at = None
    /\ w.duration_formatted = None

\* A sidecar of the kinds C1 lists: invalid JSON text, a top level that is no
\* object, or a member or timestamp that is missing, null or of the wrong type.
Malformed(sc) ==
    \/ sc.file = "invalid"
    \/ /\ sc.file = "json"
       /\ \/ sc.top # "obj"
          \/ sc.workflow # "obj" \/ sc.inputs # "obj" \/ sc.execution # "obj"
          \/ sc.started_at.t # "str" \/ sc.completed_at.t # "str"

\* C1: whatever the sidecar of a matched directory holds, load_workflow_metadata
\* raises nothing and returns the four optional fields absent, so the scan ends
\* with a record for every matched directory.
C1_MalformedSidecarNeverAbortsScan ==
    ScanEnded =>
        /\ pc = "scanned"
        /\ \A e \in fs :
              IsWorkflowDir(e) /\ Malformed(e.sidecar)
                  => \E w \in Records : w.name = e.name /\ AllAbsent(w)

\* an optional field that is absent or a string with something but blanks in it
AbsentOrText(x) == x = None \/ (x.t = "str" /\ Strip(x.v) # <<>>)

\* C6: in every record the scan returns, each optional field is absent or a
\* non-empty string (empty and whitespace-only values are normalised to absent),
\* and actor and release_version are never "Unknown".
C6_OptionalFieldsAbsentOrNonEmpty ==
    pc = "scanned" =>
        \A w \in Records :
            /\ AbsentOrText(w.actor) /\ AbsentOrText(w.release_version)
            /\ AbsentOrText(w.started_at) /\ AbsentOrText(w.duration_formatted)
            /\ w.actor # Unknown /\ w.release_version # Unknown

\* four digits, '-', two digits, '-', two digits, '-', one or more digits
StartsWithDateAndRun(name) ==
    /\ Len(name) >= 12
    /\ \A i \in 1..12 : IF i \in {5, 8, 11} THEN name[i] = "-" ELSE IsDigit(name[i])

\* C9: the scan returns exactly one record for each subdirectory whose name
\* starts with a date and a run id and is not reserved, and none for any other
\* entry.
C9_OneRecordPerWorkflowDirectory ==
    ScanEnded =>
        LET expected == {e.name : e \in {x \in fs : x.is_dir /\ x.name \notin ReservedNames
                                                    /\ StartsWithDateAndRun(x.name)}}
        IN  /\ pc = "scanned"
            /\ {w.name : w \in Records} = expected
            /\ Len(workflows) = Cardinality(expected)

\* the number a text of digits denotes
RECURSIVE NumberOf(_)
NumberOf(ds) == IF ds = <<>> THEN 0 ELSE 10 * NumberOf(SubSeq(ds, 1, Len(ds) - 1)) + DigitVal(ds[Len(ds)])

DateOf(w) == NumberOf(w.year \o w.month \o w.day)

\* a < b in code-point order
ComesBefore(a, b) ==
    \E k \in 1..(Len(b)) :
        /\ \A i \in 1..(k - 1) : i <= Len(a) /\ a[i] = b[i]
        /\ \/ k = Len(a) + 1
           \/ k <= Len(a) /\ Ord(a[k]) < Ord(b[k])

\* C4, as stated: the records are newest first; of two records the one with
\* the later date comes first, and of two records of one date the one with the
\* greater run id, whatever the numbers of digits of the run ids.
C4_NewestFirstForAnyRunId ==
    pc = "scanned" =>
        \A i, j \in 1..Len(workflows) :
            i < j =>
                /\ DateOf(workflows[i]) >= DateOf(workflows[j])
                /\ DateOf(workflows[i]) = DateOf(workflows[j])
                       => NumberOf(workflows[i].run_id) >= NumberOf(workflows[j].run_id)

\* C4, amended: the records are in descending code-point order of their names;
\* so the one with the later date comes first, and of two records of one date
\* whose run ids have the same number of digits the one with the greater run id.
C4_DescendingNames ==
    pc = "scanned" =>
        \A i, j \in 1..Len(workflows) :
            i < j =>
                /\ ComesBefore(workflows[j].name, workflows[i].name)
                /\ DateOf(workflows[i]) >= DateOf(workflows[j])
                /\ (/\ DateOf(workflows[i]) = DateOf(workflows[j])
                    /\ Len(workflows[i].run_id) = Len(workflows[j].run_id))
                       => NumberOf(workflows[i].run_id) >= NumberOf(workflows[j].run_id)

\* A scan has returned two records of one date whose run ids have the same
\* number of digits, the greater run id first.
C4_Witness ==
    /\ pc = "scanned"
    /\ Len(workflows) = 2
    /\ DateOf(workflows[1]) = DateOf(workflows[2])
    /\ Len(workflows[1].run_id) = Len(workflows[2].run_id)
    /\ NumberOf(workflows[1].run_id) > NumberOf(workflows[2].run_id)

-----------------------------------------------------------------------------
(* The claims about update_index_html and main (under Spec)                *)

Called == ret.value # "none"

\* the number of pieces p in the text s
Count(s, p) == Cardinality({i \in 1..Len(s) : s[i] = p})

\* whether text t stands in s right after position i
FollowedBy(s, i, t) == i + Len(t) <= Len(s) /\ SubSeq(s, i + 1, i + Len(t)) = t

HadArray == ArraySearch(prev.content, OldDecl) \/ ArraySearch(prev.content, NewDecl)

\* the array body that holds one entry per record, in order, and its closing  ];
CurrentArrayBody ==
    <<"\n                ">> \o WorkflowsJs(workflows) \o <<"\n            ", "]", ";">>

\* C2: from a template with a rendered array under the old or the new name,
\* update_index_html writes a template that declares the array under the new
\* name only and whose array holds one entry per current record, in record
\* order, and no entry of the previous body.  (Every rendered entry has one
\* jobCount key.)
C2_ArrayHoldsExactlyCurrentRecords ==
    (ret.value = "true" /\ HadArray) =>
        /\ Count(template.content, OldDecl) = 0
        /\ \E i \in 1..Len(template.content) :
              template.content[i] = NewDecl /\ FollowedBy(template.content, i, CurrentArrayBody)
        /\ Count(template.content, ", jobCount: ") = Len(workflows)

\* the text without its timestamp lines
WithoutStamp(s) == StampSub(s, <<>>)

\* C3: a second run with the same records changes nothing of what the first
\* run wrote but the timestamp line.
C3_SecondRunChangesOnlyTimestamp ==
    (ret.value = "true" /\ last.ok /\ last.workflows = workflows) =>
        WithoutStamp(template.content) = WithoutStamp(prev.content)

\* C7: update_index_html returns false exactly when index.html does not exist,
\* and then writes nothing; in every other case it overwrites the file once and
\* returns true.
C7_FalseOnlyWithoutTemplate ==
    Called =>
        IF prev.exists
        THEN ret.value = "true" /\ ret.wrote /\ template = File(ret.content)
        ELSE ret.value = "false" /\ ~ret.wrote /\ template = prev

HadHelper == CheckMatch(prev.content, 1) # <<>>

\* C10: after update_index_html ran on a template with the checkForIndex helper,
\* the list of its return expression holds exactly the names of the records with
\* a summary, in record order; without the helper the step changes nothing.
C10_LookupListHoldsSummaryNames ==
    ret.value = "true" =>
        IF HadHelper
        THEN \E i, r \in 1..Len(template.content) :
                /\ i < r
                /\ template.content[i] = CheckFn
                /\ template.content[r] = "return "
                /\ FollowedBy(template.content, r,
                              <<"[">> \o IndexListJs(workflows)
                              \o <<"]", ".includes(workflowName)", ";">>)
        ELSE template.content = StampStep(ArrayStep(prev.content, workflows), runs)

LastLine == IF out = <<>> THEN "" ELSE out[Len(out)]

\* C8: every run of main reaches the write step, also when the scan
\* matched no workflow directory: main returns only after update_index_html was
\* called and its success or failure was printed.
C8_EveryRunReachesWriteStep ==
    pc = "done" =>
        /\ ret.value \in {"true", "false"}
        /\ LastLine \in {"Successfully updated index.html", "Failed to update index.html"}

====
